---- MODULE Spec2Model ----
(***************************************************************************)
(* Model of the agricultural weather analysis pipeline:                    *)
(*   - ai_client.generate_ai_analysis (recommendation generator with its   *)
(*     fallback table),                                                    *)
(*   - server.agricultural_dashboard (forecast reduction, recommendation   *)
(*     extraction, alert composition),                                     *)
(*   - server.assess_frost_risk (metric derivation).                       *)
(*                                                                         *)
(* Strings whose content the code inspects (lower(), substring tests,      *)
(* strip(), int()) are sequences of one-character strings.                 *)
(***************************************************************************)
EXTENDS Integers, Sequences, FiniteSets, TLC

VARIABLES
    pc,              \* position of the running function
    env,             \* process environment read by _get_openai_api_key
    lib,             \* state of the openai package at import time
    climate_label,   \* argument of generate_ai_analysis
    city,            \* argument of generate_ai_analysis
    client,          \* local `client` of generate_ai_analysis
    calls,           \* outbound chat-completion requests issued so far
    response,        \* what the outbound call produced (text or an exception)
    result,          \* what generate_ai_analysis returned / raised
    current_weather, \* server.py: payload of get_current_weather / metric inputs
    forecast,        \* server.py: payload of get_weather_forecast
    uv_index,        \* server.py: get_uv_index value, in tenths
    frost_risk,      \* server.py: assess_frost_risk result
    irrigation_need, \* server.py: get_irrigation_need result
    daily_forecasts, \* server.py: the daily summaries
    temp_data,       \* server.py: chart series, average temperature
    humidity_data,   \* server.py: chart series, humidity
    gdd_data,        \* server.py: chart series, growing degree days
    forecast_labels, \* server.py: chart labels
    ai_analysis,     \* server.py: value of get_ai_agricultural_analysis
    page             \* server.py: what the request produced

aiVars == <<env, lib, climate_label, city, client, result>>
dashVars == <<current_weather, forecast, uv_index, frost_risk, irrigation_need,
              daily_forecasts,
              temp_data, humidity_data, gdd_data, forecast_labels, ai_analysis, page>>
vars == <<pc, calls, response, aiVars, dashVars>>

----------------------------------------------------------------------------
(* Strings as character sequences                                          *)

Upper == <<"A","B","C","D","E","F","G","H","I","J","K","L","M",
           "N","O","P","Q","R","S","T","U","V","W","X","Y","Z">>
Lower == <<"a","b","c","d","e","f","g","h","i","j","k","l","m",
           "n","o","p","q","r","s","t","u","v","w","x","y","z">>

\* str.lower() on one character
LowerChar(c) ==
    IF \E i \in 1..26 : Upper[i] = c
    THEN Lower[CHOOSE i \in 1..26 : Upper[i] = c]
    ELSE c

\* str.lower()
StrLower(s) == [i \in 1..Len(s) |-> LowerChar(s[i])]

\* Python's `sub in s`
Contains(s, sub) ==
    \E i \in 0..(Len(s) - Len(sub)) :
        \A j \in 1..Len(sub) : s[i + j] = sub[j]

IsSpace(c) == c \in {" ", "\n", "\t"}

\* str.strip(): drop leading and trailing whitespace
RECURSIVE LStrip(_)
LStrip(s) ==
    IF s # <<>> /\ IsSpace(Head(s)) THEN LStrip(Tail(s)) ELSE s

RECURSIVE RStrip(_)
RStrip(s) ==
    IF s # <<>> /\ IsSpace(s[Len(s)]) THEN RStrip(SubSeq(s, 1, Len(s) - 1)) ELSE s

StrStrip(s) == RStrip(LStrip(s))

Digits == <<"0","1","2","3","4","5","6","7","8","9">>
IsDigit(c) == \E i \in 1..10 : Digits[i] = c
DigitVal(c) == (CHOOSE i \in 1..10 : Digits[i] = c) - 1

RECURSIVE DigitsVal(_)
DigitsVal(s) ==
    IF s = <<>> THEN 0
    ELSE 10 * DigitsVal(SubSeq(s, 1, Len(s) - 1)) + DigitVal(s[Len(s)])

\* whether int(str) accepts the text: optional surrounding whitespace, optional
\* sign, at least one digit
IntParsable(s) ==
    LET b == StrStrip(s)
        u == IF b # <<>> /\ Head(b) \in {"-", "+"} THEN Tail(b) ELSE b
    IN  u # <<>> /\ \A i \in 1..Len(u) : IsDigit(u[i])

\* int(str) where IntParsable
IntOfStr(s) ==
    LET b == StrStrip(s)
        neg == b # <<>> /\ Head(b) = "-"
        u == IF b # <<>> /\ Head(b) \in {"-", "+"} THEN Tail(b) ELSE b
    IN  IF neg THEN 0 - DigitsVal(u) ELSE DigitsVal(u)

----------------------------------------------------------------------------
(* ai_client.py : fallback table                                           *)

Keys == {"irrigation_analysis", "pest_analysis", "field_analysis", "crop_analysis"}

\* the pre-authored texts, one token per table cell (bucket, key)
MockText(bucket, k) == <<bucket, ":", k>>

MockTable(bucket, ci, cp, cf, cc) ==
    [k \in Keys |->
        [recommendation |-> MockText(bucket, k),
         confidence |-> CASE k = "irrigation_analysis" -> ci
                          [] k = "pest_analysis" -> cp
                          [] k = "field_analysis" -> cf
                          [] k = "crop_analysis" -> cc]]

\* variant: the winter family is tested before the rain family
MockRecommendations_WinterFirst(label) ==
    LET climate == StrLower(label)
    IN  IF \/ Contains(climate, <<"w","i","n","t","e","r">>)
           \/ Contains(climate, <<"s","n","o","w">>)
           \/ Contains(climate, <<"c","o","l","d">>)
        THEN MockTable("winter", 95, 88, 95, 92)
        ELSE IF \/ Contains(climate, <<"r","a","i","n">>)
                \/ Contains(climate, <<"d","r","i","z","z","l","e">>)
                \/ Contains(climate, <<"t","h","u","n","d","e","r","s","t","o","r","m">>)
        THEN MockTable("rain", 92, 88, 95, 90)
        ELSE IF \/ Contains(climate, <<"s","u","n","n","y">>)
                \/ Contains(climate, <<"c","l","e","a","r">>)
        THEN MockTable("sunny", 92, 88, 95, 90)
        ELSE MockTable("moderate", 85, 82, 88, 85)

_get_mock_recommendations(label) ==
    LET climate == StrLower(label)
    IN  IF \/ Contains(climate, <<"r","a","i","n">>)
           \/ Contains(climate, <<"d","r","i","z","z","l","e">>)
           \/ Contains(climate, <<"t","h","u","n","d","e","r","s","t","o","r","m">>)
        THEN MockTable("rain", 92, 88, 95, 90)
        ELSE IF \/ Contains(climate, <<"w","i","n","t","e","r">>)
                \/ Contains(climate, <<"s","n","o","w">>)
                \/ Contains(climate, <<"c","o","l","d">>)
        THEN MockTable("winter", 95, 88, 95, 92)
        ELSE IF \/ Contains(climate, <<"s","u","n","n","y">>)
                \/ Contains(climate, <<"c","l","e","a","r">>)
        THEN MockTable("sunny", 92, 88, 95, 90)
        ELSE MockTable("moderate", 85, 82, 88, 85)

----------------------------------------------------------------------------
(* Optional values: <<>> is None / absent / raised, <<v>> is the value v   *)

None == <<>>
Some(v) == <<v>>

----------------------------------------------------------------------------
(* ai_client.py : configuration                                            *)

S_false == <<"f","a","l","s","e">>
S_true == <<"t","r","u","e">>

\* os.getenv(name, default)
Getenv(e, name, default) == IF e[name] = None THEN default ELSE e[name]

\* Python truthiness of an optional string
Truthy(o) == o # None /\ o[1] # <<>>

_get_openai_api_key(e) ==
    LET use_external_api ==
            StrLower(Getenv(e, "USE_EXTERNAL_AI", Some(S_false))[1]) = S_true
    IN  IF ~use_external_api THEN None
        ELSE IF Truthy(e["OPENAI_API_KEY"]) THEN e["OPENAI_API_KEY"]
        ELSE e["OPENAI_KEY"]

----------------------------------------------------------------------------
(* ai_client.py : the response text and its JSON content                   *)

JStr(s) == [t |-> "str", s |-> s]
JInt(n) == [t |-> "int", n |-> n]
JFloat(n10) == [t |-> "float", n10 |-> n10]      \* the number n10 / 10
JNull == [t |-> "null"]
JList == [t |-> "list"]
JDict(rec, conf) == [t |-> "dict", recommendation |-> rec, confidence |-> conf]
JObj(f) == [t |-> "obj", f |-> f]

\* int(x) of the confidence sub-value; None when int() raises
IntCoerce(x) ==
    CASE x.t = "int" -> Some(x.n)
      [] x.t = "float" ->
            Some(IF x.n10 >= 0 THEN x.n10 \div 10 ELSE 0 - ((0 - x.n10) \div 10))
      [] x.t = "str" -> IF IntParsable(x.s) THEN Some(IntOfStr(x.s)) ELSE None
      [] OTHER -> None

\* variant: the recommendation is kept as received, without .strip()
Normalize_NoStrip(obj) ==
    IF obj.t # "dict" THEN None
    ELSE
        LET recv == IF obj.recommendation = None THEN JStr(<<>>)
                    ELSE obj.recommendation[1]
            confv == IF obj.confidence = None THEN JNull ELSE obj.confidence[1]
            conf == IF confv.t # "null" THEN IntCoerce(confv) ELSE Some(50)
        IN  IF recv.t # "str" \/ conf = None THEN None
            ELSE Some([recommendation |-> recv.s, confidence |-> conf[1]])

\* _normalize(obj); None when it raises (obj has no .get, the recommendation
\* has no .strip, int() rejects the confidence)
_normalize(obj) ==
    IF obj.t # "dict" THEN None
    ELSE
        LET recv == IF obj.recommendation = None THEN JStr(<<>>)
                    ELSE obj.recommendation[1]
            confv == IF obj.confidence = None THEN JNull ELSE obj.confidence[1]
            conf == IF confv.t # "null" THEN IntCoerce(confv) ELSE Some(50)
        IN  IF recv.t # "str" \/ conf = None THEN None
            ELSE Some([recommendation |-> StrStrip(recv.s), confidence |-> conf[1]])

\* variant: data[key], which raises on an absent key
DataGet_Subscript(data, k) ==
    IF k \in DOMAIN data.f THEN data.f[k] ELSE [t |-> "absent"]

\* data.get(key, {})
DataGet(data, k) ==
    IF k \in DOMAIN data.f THEN data.f[k] ELSE JDict(None, None)

\* lines 197-203: the ai_out dictionary; None when building it raises
BuildAiOut(data) ==
    IF data.t # "obj" THEN None
    ELSE IF \E k \in Keys : _normalize(DataGet(data, k)) = None THEN None
    ELSE Some([k \in Keys |-> _normalize(DataGet(data, k))[1]])

\* The text is held as text.split('```') would cut it.  A part is empty, the
\* text of a JSON value, or other text known by how it starts.
PEmpty == [k |-> "empty"]
PJson(v) == [k |-> "json", v |-> v]
PJunk(h) == [k |-> "junk", head |-> h]

\* part.strip().startswith('{')
StartsWithBrace(p) ==
    \/ p.k = "json" /\ p.v.t = "obj"
    \/ p.k = "junk" /\ p.head = "{"

\* text.startswith('```')
StartsWithFence(text) == Len(text) > 1 /\ text[1] = PEmpty

\* lines 178-187: the first part that starts with '{' replaces the text
StripFences(text) ==
    IF StartsWithFence(text) /\ \E i \in 1..Len(text) : StartsWithBrace(text[i])
    THEN <<text[CHOOSE i \in 1..Len(text) :
                    /\ StartsWithBrace(text[i])
                    /\ \A j \in 1..(i - 1) : ~StartsWithBrace(text[j])]>>
    ELSE text

\* variant: unparsable text is read as the empty object
JsonLoads_Lenient(text) ==
    IF Len(text) = 1 /\ text[1].k = "json" THEN Some(text[1].v)
    ELSE Some(JObj([k \in {} |-> JNull]))

\* json.loads(text); None when it raises
JsonLoads(text) ==
    IF Len(text) = 1 /\ text[1].k = "json" THEN Some(text[1].v) ELSE None

\* lines 176-203 on the stripped response text; None when anything raises
ParseResponse(text) ==
    LET data == JsonLoads(StripFences(text))
    IN  IF data = None THEN None ELSE BuildAiOut(data[1])

----------------------------------------------------------------------------
(* ai_client.py : inputs of one invocation of generate_ai_analysis         *)

\* at most MaxOdd of the four top-level entries of a response object deviate
\* from the shape the system prompt asks for
MaxOdd == 2

EnvNames == {"USE_EXTERNAL_AI", "OPENAI_API_KEY", "OPENAI_KEY"}

UseValues == {None, Some(S_false), Some(S_true), Some(<<"T","R","U","E">>)}
ApiKeyValues == {None, Some(<<>>), Some(<<"s","k">>)}
AltKeyValues == {None, Some(<<"k","2">>)}

Envs ==
    {[USE_EXTERNAL_AI |-> u, OPENAI_API_KEY |-> k1, OPENAI_KEY |-> k2] :
        u \in UseValues, k1 \in ApiKeyValues, k2 \in AltKeyValues}

\* the openai package: not importable; importable without the OpenAI class
\* (pre-1.0); 1.x whose OpenAI(...) constructs; 1.x whose OpenAI(...) raises
Libs == {"absent", "legacy", "v1", "v1_ctor_raises"}

Labels ==
    { <<>>,
      <<"w","i","n","t","e","r">>,
      <<"R","a","i","n">>,
      <<"s","u","n","n","y">>,
      <<"c","l","o","u","d","s">>,
      <<"c","o","l","d"," ","r","a","i","n">>,
      <<"c","l","e","a","r"," ","s","n","o","w">> }

Cities == { <<>>, <<"F","a","r","g","o">> }

\* the entry the system prompt asks for (with the padding models add)
GoodEntry == JDict(Some(JStr(<<" ","w","a","t","e","r","\n">>)), Some(JInt(85)))

JAbsent == [t |-> "absent"]

OddEntries ==
    { JAbsent,                                                  \* key missing
      JDict(None, None),                                        \* {}
      JDict(Some(JStr(<<"d","r","y"," ">>)), Some(JNull)),      \* confidence null
      JDict(Some(JStr(<<"m","o","w">>)), Some(JFloat(867))),    \* confidence 86.7
      JDict(Some(JStr(<<"h","o","e">>)), Some(JStr(<<"h","i">>))), \* confidence "hi"
      JDict(Some(JNull), Some(JInt(70))),                       \* recommendation null
      JStr(<<"s","o","w">>) }                                   \* not an object

Objects ==
    { JObj([k \in {x \in Keys : h[x] # JAbsent} |-> h[k]]) :
        h \in { g \in [Keys -> {GoodEntry} \cup OddEntries] :
                    Cardinality({k \in Keys : g[k] # GoodEntry}) <= MaxOdd } }

JsonValues == Objects \cup {JList, JNull}

WellFormed == JObj([k \in Keys |-> GoodEntry])

Texts ==
    {<<PJson(v)>> : v \in JsonValues}                        \* {...}
    \cup {<<PEmpty, PJson(v), PEmpty>> : v \in JsonValues}   \* ```\n{...}\n```
    \cup {<<PJunk(h)>> : h \in {"{", "x"}}                   \* not JSON
    \cup {<<PEmpty>>}                                        \* empty content
    \cup {<<PEmpty, PJunk(h), PEmpty>> : h \in {"{", "json", "x"}}
                                                             \* ```json\n{...}\n```
    \cup {<<PJunk("x"), PJson(WellFormed), PEmpty>>}         \* prose ```{...}```

\* what the outbound call produces: an exception from create(), a message
\* whose content is None (content.strip() raises), or a text
Responses ==
    {[kind |-> "raise"], [kind |-> "null"]}
    \cup {[kind |-> "text", text |-> t] : t \in Texts}

NoResponse == [kind |-> "none"]
NoResult == [kind |-> "none"]

Return(v) == [kind |-> "return", value |-> v]
Raise(e) == [kind |-> "raise", exc |-> e]
NoValue == [t |-> "none"]

\* the server.py variables while no dashboard request runs
DashIdle ==
    /\ current_weather = NoValue
    /\ forecast = NoValue
    /\ uv_index = 0
    /\ frost_risk = ""
    /\ irrigation_need = ""
    /\ daily_forecasts = <<>>
    /\ temp_data = <<>>
    /\ humidity_data = <<>>
    /\ gdd_data = <<>>
    /\ forecast_labels = <<>>
    /\ ai_analysis = NoValue
    /\ page = NoResult

\* the ai_client.py variables while generate_ai_analysis does not run
AiIdle ==
    /\ env = [USE_EXTERNAL_AI |-> None, OPENAI_API_KEY |-> None, OPENAI_KEY |-> None]
    /\ lib = "absent"
    /\ climate_label = <<>>
    /\ city = <<>>
    /\ client = None
    /\ result = NoResult

----------------------------------------------------------------------------
(* ai_client.py : generate_ai_analysis                                     *)

\* lines 113-134: fallback, configuration test, client construction
GenerateStart ==
    /\ pc = "start"
    /\ LET fallback == _get_mock_recommendations(climate_label)
           api_key == _get_openai_api_key(env)
       IN  IF ~Truthy(api_key) \/ lib = "absent"
           THEN /\ result' = Return(fallback)
                /\ pc' = "done"
                /\ client' = None
           ELSE IF lib = "v1_ctor_raises"
           THEN /\ result' = Raise("OpenAI()")
                /\ pc' = "done"
                /\ client' = None
           ELSE /\ result' = NoResult
                /\ pc' = "ready"
                /\ client' = IF lib = "v1"
                             THEN Some([api_key |-> api_key[1],
                                        base_url |-> "https://api.deepseek.com"])
                             ELSE None
    /\ UNCHANGED <<env, lib, climate_label, city, calls, response, dashVars>>

\* lines 150-174: the one chat-completion request, through the client object
\* or the legacy module interface
ChatCompletionCreate ==
    /\ pc = "ready"
    /\ calls' = Append(calls, [api |-> IF client # None THEN "client" ELSE "legacy",
                               model |-> "deepseek-chat",
                               city |-> city,
                               climate_label |-> climate_label])
    /\ \E r \in Responses : response' = r
    /\ pc' = "called"
    /\ UNCHANGED <<env, lib, climate_label, city, client, result, dashVars>>

\* variant: a failed call or response is retried once
GenerateFinish_Retry ==
    /\ pc = "called"
    /\ LET fallback == _get_mock_recommendations(climate_label)
           ai_out == IF response.kind = "text" THEN ParseResponse(response.text)
                     ELSE None
       IN  IF ai_out = None /\ Len(calls) < 2
           THEN /\ pc' = "ready"
                /\ result' = result
           ELSE /\ pc' = "done"
                /\ result' = IF ai_out = None THEN Return(fallback)
                             ELSE Return(ai_out[1])
    /\ UNCHANGED <<env, lib, climate_label, city, client, calls, response, dashVars>>

\* lines 162/174 and 176-210: parse, normalise and return, or the except
\* clause returning the fallback
GenerateFinish ==
    /\ pc = "called"
    /\ LET fallback == _get_mock_recommendations(climate_label)
           ai_out == IF response.kind = "text" THEN ParseResponse(response.text)
                     ELSE None
       IN  result' = IF ai_out = None THEN Return(fallback) ELSE Return(ai_out[1])
    /\ pc' = "done"
    /\ UNCHANGED <<env, lib, climate_label, city, client, calls, response, dashVars>>

InitAI ==
    /\ pc = "start"
    /\ env \in Envs
    /\ lib \in Libs
    /\ climate_label \in Labels
    /\ city \in Cities
    /\ client = None
    /\ calls = <<>>
    /\ response = NoResponse
    /\ result = NoResult
    /\ DashIdle

NextAI == GenerateStart \/ ChatCompletionCreate \/ GenerateFinish

SpecAI == InitAI /\ [][NextAI]_vars

----------------------------------------------------------------------------
(* Properties of generate_ai_analysis (checked under SpecAI)               *)

EntryFields == {"recommendation", "confidence"}

\* the value returned has the four keys, each with the two sub-fields
Complete(v) ==
    /\ DOMAIN v = Keys
    /\ \A k \in Keys : DOMAIN v[k] = EntryFields

\* the configuration test of lines 115-117 fails: external calls are not
\* enabled (USE_EXTERNAL_AI, read case-insensitively, is not "true"), or no
\* non-empty key is set, or the openai package is absent
Unconfigured ==
    \/ env["USE_EXTERNAL_AI"] = None
    \/ env["USE_EXTERNAL_AI"] # None
         /\ StrLower(env["USE_EXTERNAL_AI"][1]) # S_true
    \/ ~Truthy(env["OPENAI_API_KEY"]) /\ ~Truthy(env["OPENAI_KEY"])
    \/ lib = "absent"

\* the response text is not JSON, neither as a whole nor as the content of
\* one pair of code fences
NonJsonText(text) ==
    /\ ~(Len(text) = 1 /\ text[1].k = "json")
    /\ ~(Len(text) = 3 /\ text[1] = PEmpty /\ text[2].k = "json" /\ text[3] = PEmpty)

\* the JSON value the response carries, bare or inside one pair of fences
Carried(text) ==
    IF Len(text) = 1 /\ text[1].k = "json" THEN Some(text[1].v)
    ELSE IF Len(text) = 3 /\ text[1] = PEmpty /\ text[2].k = "json" /\ text[3] = PEmpty
    THEN Some(text[2].v)
    ELSE None

\* the response is a JSON object that lacks at least one of the four keys
LacksKey ==
    /\ response.kind = "text"
    /\ Carried(response.text) # None
    /\ Carried(response.text)[1].t = "obj"
    /\ DOMAIN Carried(response.text)[1].f # Keys

DefaultEntry == [recommendation |-> <<>>, confidence |-> 50]

(* C1: generate_ai_analysis never propagates an exception and always returns
   a mapping with the four keys, each with a recommendation and a confidence,
   whatever the configuration, the client library and the response are. *)
C1_AlwaysReturnsComplete ==
    pc = "done" => result.kind = "return" /\ Complete(result.value)

C3_NonJsonSameAsUnconfigured ==
    (pc = "done" /\ response.kind = "text" /\ NonJsonText(response.text)) =>
        /\ result = Return(_get_mock_recommendations(climate_label))
        /\ Complete(result.value)

C3_Witness ==
    /\ pc = "done"
    /\ Len(calls) = 1
    /\ response.kind = "text"
    /\ response.text = <<PEmpty, PJunk("json"), PEmpty>>
    /\ result = Return(_get_mock_recommendations(climate_label))

\* the fallback entry the claim describes: first match of rain-family,
\* winter-family, sunny-family, else the default bucket
InFamily(label, words) == \E w \in words : Contains(StrLower(label), w)

RainWords == { <<"r","a","i","n">>, <<"d","r","i","z","z","l","e">>,
               <<"t","h","u","n","d","e","r","s","t","o","r","m">> }
WinterWords == { <<"w","i","n","t","e","r">>, <<"s","n","o","w">>, <<"c","o","l","d">> }
SunnyWords == { <<"s","u","n","n","y">>, <<"c","l","e","a","r">> }

ClaimedBucket(label) ==
    CASE InFamily(label, RainWords) -> "rain"
      [] ~InFamily(label, RainWords) /\ InFamily(label, WinterWords) -> "winter"
      [] ~InFamily(label, RainWords) /\ ~InFamily(label, WinterWords)
           /\ InFamily(label, SunnyWords) -> "sunny"
      [] OTHER -> "moderate"

ClaimedConfidence(bucket) ==
    CASE bucket = "rain" -> <<92, 88, 95, 90>>
      [] bucket = "winter" -> <<95, 88, 95, 92>>
      [] bucket = "sunny" -> <<92, 88, 95, 90>>
      [] OTHER -> <<85, 82, 88, 85>>

ConfidencesOf(v) ==
    <<v["irrigation_analysis"].confidence, v["pest_analysis"].confidence,
      v["field_analysis"].confidence, v["crop_analysis"].confidence>>

(* C4: when the service is disabled or unconfigured, no outbound call is
   made and the result is the fallback-table entry of the first matching
   family (rain, then winter, then sunny, else the default bucket); for the
   label 'winter' the confidences are irrigation 95, pest 88, field 95,
   crop 92. *)
C4_UnconfiguredGivesFallback ==
    (pc = "done" /\ Unconfigured) =>
        /\ calls = <<>>
        /\ result.kind = "return"
        /\ Complete(result.value)
        /\ LET b == ClaimedBucket(climate_label)
           IN  /\ \A k \in Keys : result.value[k].recommendation = MockText(b, k)
               /\ ConfidencesOf(result.value) = ClaimedConfidence(b)
        /\ climate_label = <<"w","i","n","t","e","r">> =>
               ConfidencesOf(result.value) = <<95, 88, 95, 92>>

C4_Witness ==
    /\ pc = "done"
    /\ Unconfigured
    /\ env["USE_EXTERNAL_AI"] = Some(S_true)
    /\ city = <<"F","a","r","g","o">>
    /\ climate_label = <<"w","i","n","t","e","r">>
    /\ calls = <<>>
    /\ result.kind = "return"
    /\ ConfidencesOf(result.value) = <<95, 88, 95, 92>>

\* the service is configured and a client (the client object or the legacy
\* module interface) could be obtained
ClientAvailable == lib \in {"legacy", "v1"}

\* the call raised, or its response does not parse and normalise
FailedResponse ==
    \/ response.kind \in {"raise", "null"}
    \/ /\ response.kind = "text"
       /\ \/ NonJsonText(response.text)
          \/ /\ Carried(response.text) # None
             /\ \/ Carried(response.text)[1].t # "obj"
                \/ /\ Carried(response.text)[1].t = "obj"
                   /\ \E k \in DOMAIN Carried(response.text)[1].f :
                         _normalize(Carried(response.text)[1].f[k]) = None

(* C5: an execution issues at most one outbound call: exactly one when the
   service is configured and the client is available, none otherwise; after
   a call that raised or returned an invalid response, the next step issues
   no further call and returns the fallback result. *)
C5_AtMostOneCall ==
    /\ [](Len(calls) <= 1)
    /\ [](pc = "done" =>
            (Len(calls) = 1 <=> (~Unconfigured /\ ClientAvailable)))
    /\ [][(pc = "called" /\ FailedResponse) =>
            /\ pc' = "done"
            /\ calls' = calls
            /\ result' = Return(_get_mock_recommendations(climate_label))]_vars

C5_Witness ==
    /\ pc = "done"
    /\ Len(calls) = 1
    /\ response.kind = "raise"
    /\ result = Return(_get_mock_recommendations(climate_label))

----------------------------------------------------------------------------
(* server.py : metric derivation                                           *)

\* temperatures (Fahrenheit) are held in hundredths of a degree
Scale == 100

\* ranges of the readings the metric functions are applied to
MinTempF == 28
MaxTempF == 40
MinHumidity == 76
MaxHumidity == 85

Max2(a, b) == IF a >= b THEN a ELSE b
Min2(a, b) == IF a <= b THEN a ELSE b

\* round(x, 1) of a value in hundredths (ties to even, as for the exactly
\* representable quarters that readings in half degrees give)
Round1(x) ==
    LET q == x \div 10
        r == x % 10
    IN  IF r < 5 THEN 10 * q
        ELSE IF r > 5 THEN 10 * (q + 1)
        ELSE IF q % 2 = 0 THEN 10 * q ELSE 10 * (q + 1)

\* (temp_max + temp_min) / 2
AvgTemp(temp_max, temp_min) == (temp_max + temp_min) \div 2

calculate_growing_degree_days(temp_max, temp_min) ==
    Max2(0, AvgTemp(temp_max, temp_min) - 50 * Scale)

\* variant: the humidity test is evaluated after the 36-degree test
FrostRisk_ModerateFirst(temp_min, humidity) ==
    IF temp_min <= 36 * Scale THEN "Moderate Risk"
    ELSE IF temp_min <= 32 * Scale /\ humidity > 80 THEN "High Risk"
    ELSE "Low Risk"

assess_frost_risk(temp_min, humidity) ==
    IF temp_min <= 32 * Scale /\ humidity > 80 THEN "High Risk"
    ELSE IF temp_min <= 36 * Scale THEN "Moderate Risk"
    ELSE "Low Risk"

\* variant: the precipitation test comes after the dry-and-hot test
IrrigationNeed_PrecipitationLate(humidity, precipitation, temp) ==
    IF humidity < 40 /\ temp > 80 * Scale THEN "High"
    ELSE IF precipitation > 50 THEN "Low"
    ELSE IF humidity < 60 THEN "Medium"
    ELSE "Low"

\* precipitation in hundredths of an inch
get_irrigation_need(humidity, precipitation, temp) ==
    IF precipitation > 50 THEN "Low"
    ELSE IF humidity < 40 /\ temp > 80 * Scale THEN "High"
    ELSE IF humidity < 60 THEN "Medium"
    ELSE "Low"

\* readings in half degrees and whole percents
MetricReadings ==
    {[temp_min |-> h * (Scale \div 2), humidity |-> u] :
        h \in (2 * MinTempF)..(2 * MaxTempF), u \in MinHumidity..MaxHumidity}

AssessFrostRisk ==
    /\ pc = "metric_start"
    /\ frost_risk' = assess_frost_risk(current_weather.temp_min,
                                       current_weather.humidity)
    /\ pc' = "metric_done"
    /\ UNCHANGED <<calls, response, aiVars, current_weather, forecast, uv_index,
                   irrigation_need,
                   daily_forecasts, temp_data, humidity_data, gdd_data,
                   forecast_labels, ai_analysis, page>>

InitMetric ==
    /\ pc = "metric_start"
    /\ AiIdle
    /\ calls = <<>>
    /\ response = NoResponse
    /\ current_weather \in MetricReadings
    /\ forecast = NoValue
    /\ uv_index = 0
    /\ frost_risk = ""
    /\ irrigation_need = ""
    /\ daily_forecasts = <<>>
    /\ temp_data = <<>>
    /\ humidity_data = <<>>
    /\ gdd_data = <<>>
    /\ forecast_labels = <<>>
    /\ ai_analysis = NoValue
    /\ page = NoResult

NextMetric == AssessFrostRisk

SpecMetric == InitMetric /\ [][NextMetric]_vars

(* C10: assess_frost_risk returns High Risk exactly when tempMin <= 32 and
   humidity > 80, Moderate Risk exactly when tempMin <= 36 and not
   (tempMin <= 32 and humidity > 80), and Low Risk exactly when tempMin > 36;
   a reading with tempMin <= 32 and humidity <= 80 is Moderate Risk. *)
C10_FrostRiskClasses ==
    pc = "metric_done" =>
        LET t == current_weather.temp_min
            u == current_weather.humidity
            high == t <= 32 * Scale /\ u > 80
        IN  /\ frost_risk \in {"High Risk", "Moderate Risk", "Low Risk"}
            /\ frost_risk = "High Risk" <=> high
            /\ frost_risk = "Moderate Risk" <=> (t <= 36 * Scale /\ ~high)
            /\ frost_risk = "Low Risk" <=> t > 36 * Scale
            /\ (t <= 32 * Scale /\ u <= 80) => frost_risk = "Moderate Risk"

C10_Witness ==
    /\ pc = "metric_done"
    /\ current_weather.temp_min = 31 * Scale
    /\ current_weather.humidity = 80
    /\ frost_risk = "Moderate Risk"

----------------------------------------------------------------------------
(* server.py : inputs of one agricultural_dashboard request                *)

\* longest forecast list the provider returns
MaxForecastLen == 58

\* at most MaxOddDash of the four entries of a response object deviate from
\* the shape the prompt asks for
MaxOddDash == 1

\* get_current_weather payloads: a failure status, or readings giving each
\* frost class (temperatures in hundredths)
DashWeathers ==
    {[cod |-> 404]}
    \cup {[cod |-> 200, temp_min |-> w[1] * Scale, temp_max |-> (w[1] + 20) * Scale,
           temp |-> (w[1] + 10) * Scale, humidity |-> w[2]] :
            w \in {<<31, 85>>, <<35, 50>>, <<40, 50>>}}

\* get_uv_index values, in tenths
UvValues == {30, 70, 90}

\* the forecast point at 0-based index i: 3-hour slots counted by dt, readings
\* in half degrees
ForecastPoint(i) ==
    [dt |-> 803 + i,
     dt_txt |-> [day |-> (803 + i) \div 8, slot |-> (803 + i) % 8],
     main |-> Some([temp_min |-> 2800 + ((i * 7) % 60) * 50,
                    temp_max |-> 3800 + ((i * 7) % 60) * 50 + ((i * 11) % 7) * 50,
                    humidity |-> 60 + ((i * 13) % 35)]),
     rain |-> IF i % 3 = 0 THEN Some(10 * (i % 7)) ELSE None,
     wind_speed |-> 5 + (i % 4),
     description |-> IF i % 2 = 0 THEN "light rain" ELSE "clear sky"]

\* a point without its 'main' field
MalformedPoint(i) == [ForecastPoint(i) EXCEPT !.main = None]

\* a list of n points, the one at 1-based position bad (if any) malformed
ForecastList(n, bad) ==
    [j \in 1..n |-> IF j = bad THEN MalformedPoint(j - 1) ELSE ForecastPoint(j - 1)]

FNull == [t |-> "null"]
FDict(list, extra) == [t |-> "dict", list |-> list, extra |-> extra]

\* get_weather_forecast results: None (the request raised), {}, an error
\* payload without 'list', or a payload with a list
Forecasts ==
    {FNull, FDict(None, FALSE), FDict(None, TRUE)}
    \cup {FDict(Some(ForecastList(n, bad)), TRUE) :
            n \in 0..MaxForecastLen, bad \in {0, 1, 4, 9}}

\* entries of the JSON the prompt of get_ai_agricultural_analysis asks for
SDict(rec, pri) == [t |-> "dict", recommendation |-> rec, priority |-> pri]

DashGoodEntry == SDict(Some(JStr(<<"w","a","t","e","r">>)), Some(JStr(<<"H","i","g","h">>)))

DashOddEntries ==
    { JAbsent,
      SDict(None, None),
      SDict(Some(JStr(<<"m","o","w">>)), None),
      SDict(None, Some(JStr(<<"L","o","w">>))),
      JStr(<<"s","o","w">>) }

DashObjects ==
    { JObj([k \in {x \in Keys : h[x] # JAbsent} |-> h[k]]) :
        h \in { g \in [Keys -> {DashGoodEntry} \cup DashOddEntries] :
                    Cardinality({k \in Keys : g[k] # DashGoodEntry}) <= MaxOddDash } }

DashWellFormed == JObj([k \in Keys |-> DashGoodEntry])

DashTexts ==
    {<<PJson(v)>> : v \in DashObjects \cup {JList, JNull}}
    \cup {<<PJunk("x")>>, <<PEmpty, PJson(DashWellFormed), PEmpty>>}

DashResponses ==
    {[kind |-> "raise"], [kind |-> "null"]}
    \cup {[kind |-> "text", text |-> t] : t \in DashTexts}

----------------------------------------------------------------------------
(* server.py : forecast reduction (lines 199-238)                          *)

\* datetime.fromtimestamp(dt) as a day number and strftime of it
DayOf(dt) == dt \div 8
StrftimeLong(dt) == [weekday |-> DayOf(dt) % 7, day |-> DayOf(dt)]   \* '%a, %b %d'
StrftimeShort(dt) == [md |-> DayOf(dt)]                              \* '%m/%d'

\* the dictionary appended to daily_forecasts for one point
DailySummary(day_data) ==
    LET m == day_data.main[1]
    IN  [date |-> day_data.dt_txt.day,
         date_formatted |-> StrftimeLong(day_data.dt),
         temp_max |-> m.temp_max,
         temp_min |-> m.temp_min,
         humidity |-> m.humidity,
         precipitation |-> IF day_data.rain = None THEN 0 ELSE day_data.rain[1],
         wind_speed |-> day_data.wind_speed,
         gdd |-> calculate_growing_degree_days(m.temp_max, m.temp_min),
         frost_risk |-> assess_frost_risk(m.temp_min, m.humidity),
         weather |-> day_data.description,
         weather_icon |-> "cloud-sun"]

EmptySeries ==
    [daily |-> <<>>, temp |-> <<>>, humidity |-> <<>>, gdd |-> <<>>,
     labels |-> <<>>, raised |-> FALSE]

\* variant: the loop runs to the end of the list
LoopStop_NoCap(n) == n

\* min(len(forecast['list']), 56)
LoopStop(n) == Min2(n, 56)

\* date_obj.strftime('%m/%d') of the point at 0-based index i
ChartLabel(list, i) == StrftimeShort(list[i + 1].dt)

\* the loop body from 0-based index i, step 8; a point without 'main' raises
\* KeyError and leaves the series as they were
RECURSIVE ReduceFrom(_, _, _, _)
ReduceFrom(list, i, stop, acc) ==
    IF i >= stop THEN acc
    ELSE LET day_data == list[i + 1]
         IN  IF day_data.main = None THEN [acc EXCEPT !.raised = TRUE]
             ELSE LET d == DailySummary(day_data)
                  IN  ReduceFrom(list, i + 8, stop,
                        [daily |-> Append(acc.daily, d),
                         temp |-> Append(acc.temp, Round1(AvgTemp(d.temp_max, d.temp_min))),
                         humidity |-> Append(acc.humidity, d.humidity),
                         gdd |-> Append(acc.gdd, Round1(d.gdd)),
                         labels |-> Append(acc.labels, ChartLabel(list, i)),
                         raised |-> FALSE])

\* lines 199-238; forecast['list'] raises KeyError when the field is absent
ReduceForecast(f) ==
    IF f.list = None THEN [EmptySeries EXCEPT !.raised = TRUE]
    ELSE ReduceFrom(f.list[1], 0, LoopStop(Len(f.list[1])), EmptySeries)

\* `not forecast`
Falsy(f) == f.t = "null" \/ (f.t = "dict" /\ f.list = None /\ ~f.extra)

----------------------------------------------------------------------------
(* server.py : get_ai_agricultural_analysis and agricultural_dashboard     *)

\* the dictionaries of lines 108-125 and 130-147
FallbackEntry(tag, k, pri) ==
    SDict(Some(JStr(<<tag, ":", k>>)), Some(JStr(<<pri>>)))

FallbackAnalysis(tag) ==
    JObj([k \in Keys |->
            FallbackEntry(tag, k,
                CASE k = "irrigation_analysis" -> "Medium"
                  [] k = "pest_analysis" -> "Medium"
                  [] k = "field_analysis" -> "Good"
                  [] k = "crop_analysis" -> "Optimal")])

\* what get_ai_agricultural_analysis returns for an outcome of the call:
\* create() raising reaches the outer except; json.loads failing (also on a
\* None content) reaches the inner one; parsed JSON is returned as it is
AiAnalysisOf(r) ==
    IF r.kind = "raise" THEN FallbackAnalysis("error")
    ELSE IF r.kind = "null" THEN FallbackAnalysis("unparsed")
    ELSE IF JsonLoads(r.text) = None THEN FallbackAnalysis("unparsed")
    ELSE JsonLoads(r.text)[1]

\* ai_analysis[k][field]; None when the subscripts raise
Extract(a, k, field) ==
    IF a.t # "obj" THEN None
    ELSE IF k \notin DOMAIN a.f THEN None
    ELSE IF a.f[k].t # "dict" THEN None
    ELSE IF field = "recommendation" THEN a.f[k].recommendation
    ELSE a.f[k].priority

\* the subscripts of lines 246-255, in order
Extracted ==
    <<<<"irrigation_analysis", "recommendation">>, <<"irrigation_analysis", "priority">>,
      <<"pest_analysis", "recommendation">>, <<"pest_analysis", "priority">>,
      <<"field_analysis", "recommendation">>, <<"field_analysis", "priority">>,
      <<"crop_analysis", "recommendation">>>>

\* variant: the UV alert is built before the frost alert
BuildAlerts_UvFirst(frost, uv) ==
    (IF uv > 7 * 10
     THEN <<[type |-> "warning", icon |-> "sun",
             message |-> [text |-> "High UV Index", value |-> uv]]>>
     ELSE <<>>)
    \o
    (IF frost = "High Risk"
     THEN <<[type |-> "danger", icon |-> "exclamation-triangle",
             message |-> [text |-> "Frost Warning", value |-> 0]]>>
     ELSE <<>>)

\* lines 269-282 (uv in tenths)
BuildAlerts(frost, uv) ==
    (IF frost = "High Risk"
     THEN <<[type |-> "danger", icon |-> "exclamation-triangle",
             message |-> [text |-> "Frost Warning", value |-> 0]]>>
     ELSE <<>>)
    \o
    (IF uv > 7 * 10
     THEN <<[type |-> "warning", icon |-> "sun",
             message |-> [text |-> "High UV Index", value |-> uv]]>>
     ELSE <<>>)

CityNotFound == Return([template |-> "city-not-found.html"])

\* lines 176-238: fetches, current metrics, forecast reduction
DashPrepare ==
    /\ pc = "dash_start"
    /\ IF current_weather.cod # 200 \/ Falsy(forecast)
       THEN /\ page' = CityNotFound
            /\ pc' = "dash_done"
            /\ UNCHANGED <<frost_risk, irrigation_need, daily_forecasts, temp_data,
                           humidity_data, gdd_data, forecast_labels>>
       ELSE LET red == ReduceForecast(forecast)
            IN  /\ frost_risk' = assess_frost_risk(current_weather.temp_min,
                                                   current_weather.humidity)
                /\ irrigation_need' = get_irrigation_need(current_weather.humidity, 0,
                                                          current_weather.temp)
                /\ daily_forecasts' = red.daily
                /\ temp_data' = red.temp
                /\ humidity_data' = red.humidity
                /\ gdd_data' = red.gdd
                /\ forecast_labels' = red.labels
                /\ IF red.raised
                   THEN page' = Raise("KeyError") /\ pc' = "dash_done"
                   ELSE page' = page /\ pc' = "dash_ai"
    /\ UNCHANGED <<calls, response, aiVars, current_weather, forecast, uv_index,
                   ai_analysis>>

\* lines 241-243 with 60-147: the one openai.ChatCompletion.create request
\* and what get_ai_agricultural_analysis makes of its outcome
DashAiAnalysis ==
    /\ pc = "dash_ai"
    /\ calls' = Append(calls, [api |-> "legacy", model |-> "gpt-3.5-turbo",
                               city |-> city, climate_label |-> <<>>])
    /\ \E r \in DashResponses :
          /\ response' = r
          /\ ai_analysis' = AiAnalysisOf(r)
    /\ pc' = "dash_render"
    /\ UNCHANGED <<aiVars, current_weather, forecast, uv_index, frost_risk,
                   irrigation_need, daily_forecasts, temp_data, humidity_data,
                   gdd_data, forecast_labels, page>>

\* lines 245-306: recommendation extraction, alerts, render_template
DashRender ==
    /\ pc = "dash_render"
    /\ IF \E i \in 1..Len(Extracted) :
              Extract(ai_analysis, Extracted[i][1], Extracted[i][2]) = None
       THEN page' = Raise("KeyError")
       ELSE page' = Return(
              [template |-> "agricultural-dashboard.html",
               recommendations |->
                   [k \in Keys |-> Extract(ai_analysis, k, "recommendation")[1]],
               priorities |->
                   [k \in Keys \ {"crop_analysis"} |-> Extract(ai_analysis, k, "priority")[1]],
               current_gdd |-> calculate_growing_degree_days(
                                   current_weather.temp_max, current_weather.temp_min),
               irrigation_need |-> irrigation_need,
               alerts |-> BuildAlerts(frost_risk, uv_index)])
    /\ pc' = "dash_done"
    /\ UNCHANGED <<calls, response, aiVars, current_weather, forecast, uv_index,
                   frost_risk, irrigation_need, daily_forecasts, temp_data,
                   humidity_data, gdd_data, forecast_labels, ai_analysis>>

InitDash ==
    /\ pc = "dash_start"
    /\ AiIdle
    /\ calls = <<>>
    /\ response = NoResponse
    /\ current_weather \in DashWeathers
    /\ forecast \in Forecasts
    /\ uv_index \in UvValues
    /\ frost_risk = ""
    /\ irrigation_need = ""
    /\ daily_forecasts = <<>>
    /\ temp_data = <<>>
    /\ humidity_data = <<>>
    /\ gdd_data = <<>>
    /\ forecast_labels = <<>>
    /\ ai_analysis = NoValue
    /\ page = NoResult

NextDash == DashPrepare \/ DashAiAnalysis \/ DashRender

SpecDash == InitDash /\ [][NextDash]_vars

----------------------------------------------------------------------------
(* Properties of agricultural_dashboard (checked under SpecDash)           *)

Rendered == page.kind = "return" /\ page.value.template = "agricultural-dashboard.html"

\* the forecast reduction ran to its end
Reduced ==
    \/ pc \in {"dash_ai", "dash_render"}
    \/ pc = "dash_done" /\ Len(calls) = 1

\* DashPrepare has ended and nothing after it has run
AfterPrepare == pc \in {"dash_ai", "dash_done"} /\ calls = <<>>

CeilDiv(a, b) == (a + b - 1) \div b

SeriesEmpty ==
    /\ daily_forecasts = <<>>
    /\ temp_data = <<>>
    /\ humidity_data = <<>>
    /\ gdd_data = <<>>
    /\ forecast_labels = <<>>

(* C6: whatever the text-generation step does inside the request (the call
   raises, the response is not JSON, is JSON lacking keys or sub-fields, or
   is JSON that is not an object), the request does not fail because of it:
   the dashboard is rendered with a recommendation for each category. *)
C6_DashboardAlwaysRenders ==
    (pc = "dash_done" /\ Len(calls) = 1) =>
        /\ Rendered
        /\ DOMAIN page.value.recommendations = Keys

(* C7: for a forecast list of length n the loop selects exactly the points
   at indices 0, 8, 16, ... below min(n, 56), in order: min(7, ceil(n/8))
   daily summaries (5 for n = 40); the four chart sequences have the length
   of the summary sequence and entry k of each comes from the forecast point
   summary k comes from. *)
C7_EveryEighthPoint ==
    Reduced =>
        LET list == forecast.list[1]
            n == Len(list)
            m == Len(daily_forecasts)
        IN  /\ m = Min2(7, CeilDiv(n, 8))
            /\ n = 40 => m = 5
            /\ Len(forecast_labels) = m
            /\ Len(temp_data) = m
            /\ Len(humidity_data) = m
            /\ Len(gdd_data) = m
            /\ \A k \in 1..m :
                 LET i == 8 * (k - 1)
                     pt == list[i + 1]
                     avg == (pt.main[1].temp_max + pt.main[1].temp_min) \div 2
                 IN  /\ i < Min2(n, 56)
                     /\ daily_forecasts[k].date = pt.dt_txt.day
                     /\ daily_forecasts[k].date_formatted.day = pt.dt \div 8
                     /\ daily_forecasts[k].temp_max = pt.main[1].temp_max
                     /\ daily_forecasts[k].temp_min = pt.main[1].temp_min
                     /\ daily_forecasts[k].humidity = pt.main[1].humidity
                     /\ daily_forecasts[k].wind_speed = pt.wind_speed
                     /\ forecast_labels[k].md = pt.dt \div 8
                     /\ temp_data[k] = Round1(avg)
                     /\ humidity_data[k] = pt.main[1].humidity
                     /\ gdd_data[k] = Round1(IF avg > 50 * Scale THEN avg - 50 * Scale ELSE 0)

C7_Witness ==
    /\ pc = "dash_ai"
    /\ Len(forecast.list[1]) = 40
    /\ Len(daily_forecasts) = 5
    /\ Len(gdd_data) = 5
    /\ daily_forecasts[5].temp_min = forecast.list[1][33].main[1].temp_min
    /\ \E k \in 1..5 : gdd_data[k] > 0

(* C8: an empty forecast sequence or a malformed forecast payload (no 'list'
   field, or a selected point missing a required field) yields an empty
   daily summary sequence and empty chart sequences, and no error. *)
C8_MalformedForecastYieldsEmpty ==
    (/\ AfterPrepare
     /\ current_weather.cod = 200
     /\ ~Falsy(forecast)
     /\ \/ forecast.list = None
        \/ /\ forecast.list # None
           /\ \/ forecast.list[1] = <<>>
              \/ \E i \in 0..6 :
                    /\ 8 * i < Len(forecast.list[1])
                    /\ forecast.list[1][8 * i + 1].main = None)
    => (pc = "dash_ai" /\ page.kind # "raise" /\ SeriesEmpty)

AlertTypes(alerts) == [i \in 1..Len(alerts) |-> alerts[i].type]

(* C9: the alert sequence holds a 'danger' frost alert iff frost risk is
   High Risk, a 'warning' UV alert iff UV index > 7, nothing else, the frost
   alert first (High Risk with UV 9 gives [danger, warning]; Low Risk with
   UV 3 gives the empty sequence). *)
C9_AlertsInOrder ==
    (pc = "dash_done" /\ Rendered) =>
        LET alerts == page.value.alerts
        IN  /\ AlertTypes(alerts) =
                 (IF frost_risk = "High Risk" THEN <<"danger">> ELSE <<>>)
                 \o (IF uv_index > 70 THEN <<"warning">> ELSE <<>>)
            /\ \A i \in 1..Len(alerts) :
                 /\ alerts[i].type = "danger" => alerts[i].message.text = "Frost Warning"
                 /\ alerts[i].type = "warning" =>
                        alerts[i].message = [text |-> "High UV Index", value |-> uv_index]
            /\ (frost_risk = "High Risk" /\ uv_index = 90) =>
                    AlertTypes(alerts) = <<"danger", "warning">>
            /\ (frost_risk = "Low Risk" /\ uv_index = 30) => alerts = <<>>

C9_Witness ==
    /\ pc = "dash_done"
    /\ Rendered
    /\ frost_risk = "High Risk"
    /\ uv_index = 90
    /\ AlertTypes(page.value.alerts) = <<"danger", "warning">>

----------------------------------------------------------------------------
(* server.py : get_irrigation_need applied to bounded readings             *)

\* ranges of the readings get_irrigation_need is applied to: humidity in
\* percent, precipitation in hundredths of an inch, temperature in degrees
MinIrrHumidity == 37
MaxIrrHumidity == 62
MinPrecip == 48
MaxPrecip == 52
MinIrrTempF == 79
MaxIrrTempF == 82

\* no rain at all, or an accumulation around half an inch; temperatures in
\* half degrees
IrrigationReadings ==
    {[humidity |-> u, precipitation |-> q, temp |-> h * (Scale \div 2)] :
        u \in MinIrrHumidity..MaxIrrHumidity,
        q \in {0} \cup (MinPrecip..MaxPrecip),
        h \in (2 * MinIrrTempF)..(2 * MaxIrrTempF)}

GetIrrigationNeed ==
    /\ pc = "irrigation_start"
    /\ irrigation_need' = get_irrigation_need(current_weather.humidity,
                                              current_weather.precipitation,
                                              current_weather.temp)
    /\ pc' = "irrigation_done"
    /\ UNCHANGED <<calls, response, aiVars, current_weather, forecast, uv_index,
                   frost_risk, daily_forecasts, temp_data, humidity_data, gdd_data,
                   forecast_labels, ai_analysis, page>>

InitIrrigation ==
    /\ pc = "irrigation_start"
    /\ AiIdle
    /\ calls = <<>>
    /\ response = NoResponse
    /\ current_weather \in IrrigationReadings
    /\ forecast = NoValue
    /\ uv_index = 0
    /\ frost_risk = ""
    /\ irrigation_need = ""
    /\ daily_forecasts = <<>>
    /\ temp_data = <<>>
    /\ humidity_data = <<>>
    /\ gdd_data = <<>>
    /\ forecast_labels = <<>>
    /\ ai_analysis = NoValue
    /\ page = NoResult

NextIrrigation == GetIrrigationNeed

SpecIrrigation == InitIrrigation /\ [][NextIrrigation]_vars

(* C11: get_irrigation_need returns Low whenever precipitation > 0.5,
   regardless of humidity and temperature; otherwise High when humidity < 40
   and temp > 80, otherwise Medium when humidity < 60, otherwise Low. *)
C11_IrrigationNeed ==
    pc = "irrigation_done" =>
        LET u == current_weather.humidity
            q == current_weather.precipitation
            t == current_weather.temp
            wet == q > 50
            dryhot == u < 40 /\ t > 80 * Scale
        IN  /\ wet => irrigation_need = "Low"
            /\ (~wet /\ dryhot) => irrigation_need = "High"
            /\ (~wet /\ ~dryhot /\ u < 60) => irrigation_need = "Medium"
            /\ (~wet /\ ~dryhot /\ u >= 60) => irrigation_need = "Low"

\* precipitation short-circuits a dry and hot reading
C11_Witness ==
    /\ pc = "irrigation_done"
    /\ current_weather.humidity < 40
    /\ current_weather.precipitation > 50
    /\ current_weather.temp > 80 * Scale
    /\ irrigation_need = "Low"

----------------------------------------------------------------------------
(* Properties of _normalize (checked under SpecAI)                         *)

\* r is s without its leading and trailing whitespace
IsTrimOf(r, s) ==
    /\ r # <<>> => ~IsSpace(r[1]) /\ ~IsSpace(r[Len(r)])
    /\ \E i \in 1..(Len(s) + 1) : \E j \in 0..Len(s) :
          /\ r = SubSeq(s, i, j)
          /\ \A n \in 1..Len(s) : (n < i \/ n > j) => IsSpace(s[n])

\* c is the number n10 / 10 with its fraction dropped
IsTruncationOf(c, n10) ==
    IF n10 >= 0 THEN 10 * c <= n10 /\ n10 < 10 * (c + 1)
    ELSE 10 * c >= n10 /\ n10 > 10 * (c - 1)

\* an entry of the response object as the prompt asks for it, up to missing
\* sub-keys: the recommendation is absent or a string, the confidence is
\* absent, null or a number
Normalizable(e) ==
    /\ e.t = "dict"
    /\ e.recommendation # None => e.recommendation[1].t = "str"
    /\ e.confidence # None => e.confidence[1].t \in {"null", "int", "float"}

\* the call returned a JSON object, bare or inside one pair of fences, whose
\* present entries are all normalizable
SuccessfulResponse ==
    /\ response.kind = "text"
    /\ Carried(response.text) # None
    /\ Carried(response.text)[1].t = "obj"
    /\ \A k \in DOMAIN Carried(response.text)[1].f :
          Normalizable(Carried(response.text)[1].f[k])

\* out is what the claim promises for the entry e
NormalizedFrom(out, e) ==
    /\ IF e.recommendation = None THEN out.recommendation = <<>>
       ELSE IsTrimOf(out.recommendation, e.recommendation[1].s)
    /\ IF e.confidence = None THEN out.confidence = 50
       ELSE LET c == e.confidence[1]
            IN  CASE c.t = "null" -> out.confidence = 50
                  [] c.t = "int" -> out.confidence = c.n
                  [] c.t = "float" -> IsTruncationOf(out.confidence, c.n10)

(* C12: on a successful external response, each of the four keys of the
   result holds the recommendation text with leading and trailing whitespace
   removed and the confidence coerced to an integer, with confidence 50 when
   the confidence sub-key is absent or null and an empty recommendation when
   the recommendation sub-key is absent; a missing sub-key inside a present
   top-level key does not replace the result by the fallback. *)
C12_NormalizedEntries ==
    (pc = "done" /\ SuccessfulResponse) =>
        LET f == Carried(response.text)[1].f
        IN  /\ result.kind = "return"
            /\ \A k \in DOMAIN f : NormalizedFrom(result.value[k], f[k])
            /\ (\E k \in DOMAIN f : f[k].recommendation = None \/ f[k].confidence = None)
                  => result # Return(_get_mock_recommendations(climate_label))

\* a response with a padded recommendation, a null confidence and an entry
\* without sub-keys has been normalised and returned
C12_Witness ==
    /\ pc = "done"
    /\ SuccessfulResponse
    /\ LET f == Carried(response.text)[1].f
       IN  /\ DOMAIN f = Keys
           /\ \E k \in Keys : /\ f[k] = JDict(None, None)
                              /\ result.value[k] = DefaultEntry
           /\ \E k \in Keys : /\ f[k].confidence = Some(JNull)
                              /\ result.value[k].recommendation = <<"d","r","y">>
                              /\ result.value[k].confidence = 50
           /\ \E k \in Keys : /\ f[k] = GoodEntry
                              /\ result.value[k].recommendation = <<"w","a","t","e","r">>
                              /\ result.value[k].confidence = 85
    /\ result # Return(_get_mock_recommendations(climate_label))

====
